---- MODULE Spec2Model ----
(***************************************************************************)
(* Model of the vcsclient adapters of froggit-go (vcsclient/github.go and  *)
(* vcsclient/gitlab.go).  One client operation runs at a time; an          *)
(* operation records every network call it issues in `calls` and its      *)
(* return value in `ret`.  The platform (the pages it serves, the hooks   *)
(* it holds, whether a call succeeds) and the caller's context are the     *)
(* environment.                                                            *)
(***************************************************************************)
EXTENDS Integers, Sequences, FiniteSets, TLC

\* ------------------------------------------------------------ bounds
\* Width of the integer type strconv parses into (64 in the build), scaled.
IntBits == 5
\* Pages the platform holds for one listing.
MaxPages == 3
\* Groups the GitLab platform returns from ListGroups.
MaxGroups == 2
\* Hooks the platform holds at once.
MaxHooks == 2

RECURSIVE Pow2(_)
Pow2(n) == IF n = 0 THEN 1 ELSE 2 * Pow2(n - 1)
MaxInt == Pow2(IntBits - 1) - 1
MinInt == -Pow2(IntBits - 1)

\* ------------------------------------------------------------ strings
\* Argument strings: empty, whitespace only, and a proper name.
Strs == {"", " ", "o"}
\* Owner and repository arguments of the webhook operations.
HookOwners == {"", "o"}
HookRepos == {"o"}
\* strings.TrimSpace(v) == ""
IsBlank(s) == s \in {"", " "}

Digits == <<"0", "1", "2", "3", "4", "5", "6", "7", "8", "9">>
DigitChar(d) == Digits[d + 1]
IsDigit(c) == \E d \in 0..9 : Digits[d + 1] = c
DigitVal(c) == CHOOSE d \in 0..9 : Digits[d + 1] = c

\* Decimal digits of n >= 0, most significant first.
RECURSIVE FormatUint(_)
FormatUint(n) == IF n < 10 THEN <<DigitChar(n)>>
                 ELSE Append(FormatUint(n \div 10), DigitChar(n % 10))

\* strconv.FormatInt(i, 10) and strconv.Itoa(i): a string is a sequence of
\* one-character strings.
FormatInt(i) == IF i < 0 THEN <<"-">> \o FormatUint(-i) ELSE FormatUint(i)

\* Value of a non-empty digit sequence, or -1 once it exceeds cutoff.
RECURSIVE ParseUint(_, _, _)
ParseUint(s, acc, cutoff) ==
    IF s = <<>> THEN acc
    ELSE LET n == acc * 10 + DigitVal(Head(s))
         IN  IF n > cutoff THEN -1 ELSE ParseUint(Tail(s), n, cutoff)

\* strconv.ParseInt(s, 10, bitSize) and strconv.Atoi(s): an optional sign, then
\* one or more decimal digits, the value within the integer type's range.
ParseInt(s) ==
    IF s = <<>> THEN [ok |-> FALSE, val |-> 0]
    ELSE LET neg  == Head(s) = "-"
             body == IF Head(s) \in {"-", "+"} THEN Tail(s) ELSE s
             u    == IF body = <<>> \/ \E i \in 1..Len(body) : ~IsDigit(body[i])
                     THEN -1
                     ELSE ParseUint(body, 0, MaxInt + 1)
         IN  IF u = -1 \/ (~neg /\ u > MaxInt) THEN [ok |-> FALSE, val |-> 0]
             ELSE [ok |-> TRUE, val |-> IF neg THEN -u ELSE u]

\* Hook identifiers the platform may assign.
HookIds == {MinInt, 0, MaxInt}
\* Strings that are no identifier: empty, letters, a bare sign, out of range.
BadIds == {<<>>, <<"1", "a">>, <<"-">>, <<"1", "-">>,
           FormatUint(MaxInt + 1), <<"-">> \o FormatUint(MaxInt + 2)}
\* Other spellings strconv accepts.
AltIds == {<<"+", "0">>, <<"0", "0">>}
WebhookIds == {FormatInt(h) : h \in HookIds} \cup BadIds \cup AltIds

\* ------------------------------------------------------------ domain
\* CommitStatus is an int enum; Unmapped stands for any value beyond the four.
CommitStatuses == {"Pass", "Fail", "Error", "InProgress", "Unmapped"}
Permissions == {"ReadOnly", "ReadWrite"}
\* vcsInfo.ApiEndpoint: empty (platform default), a URL, a malformed URL.
Endpoints == {"", "http://h", "http://[::1"}
PayloadUrls == {"u1", "u2"}
\* Owners and namespaces of repositories: GitLab group g has path g.
Owners == 1..(MaxGroups + 1)
\* vcsutils.CreateToken(): the generated shared secret.
CreateToken == "tok"

VARIABLES
    vcsInfo,      \* the GitHub client's configuration
    ghPages,      \* pages of repositories the GitHub platform holds
    glGroups,     \* GitLab: for each group ListGroups returns, its number of pages
    hooks,        \* the platform's webhooks: hook id -> payload URL
    created,      \* the last successful CreateWebhook: returned string and hook id
    ctxCanceled,  \* the caller's context of the running operation is canceled
    pc,           \* "idle", a position inside a multi-call operation, or "done"
    op,           \* the running operation and its arguments
    local,        \* local variables of a multi-call operation
    calls,        \* network calls the running operation has issued, in order
    ret           \* what the operation returned

vars == <<vcsInfo, ghPages, glGroups, hooks, created, ctxCanceled, pc, op, local, calls, ret>>
platformVars == <<vcsInfo, ghPages, glGroups>>
\* The sets of page layouts the platform may hold.
PageCounts == 1..MaxPages
GroupLayouts == UNION {[1..g -> 1..MaxPages] : g \in 0..MaxGroups}

NoOp == [adapter |-> "none", name |-> "none"]
NoLocal == [none |-> TRUE]
NoRet == [err |-> "none"]
NoHook == [set |-> FALSE]

\* The empty result map: no owner has any name.
EmptyResults == [o \in Owners |-> <<>>]
HasNames(m) == \E o \in Owners : m[o] # <<>>

Init ==
    /\ vcsInfo \in [ApiEndpoint : Endpoints]
    /\ ghPages = 1
    /\ glGroups = <<>>
    /\ hooks = <<>>
    /\ created = NoHook
    /\ ctxCanceled = FALSE
    /\ pc = "idle"
    /\ op = NoOp
    /\ local = NoLocal
    /\ calls = <<>>
    /\ ret = NoRet

\* ------------------------------------------------------------ environment
\* url.Parse of the endpoint.
UrlParses(u) == u # "http://[::1"

\* One HTTP call.  A call that carries the caller's context is not sent once the
\* context is canceled; otherwise it is sent and the platform accepts or fails it.
NetCall(api, arg, passesCtx, canceled, accepted) ==
    [api |-> api, arg |-> arg, passesCtx |-> passesCtx, canceledAtStart |-> canceled,
     sent |-> ~(passesCtx /\ canceled),
     ok |-> ~(passesCtx /\ canceled) /\ accepted]

\* The error a call returns to the adapter.
CallError(c) == IF ~c.sent THEN "canceled" ELSE IF c.ok THEN "nil" ELSE "platform"

\* The validation helper shared by the adapters: an error when any value is blank.
validateParametersNotBlank(params) ==
    IF \E v \in params : IsBlank(v) THEN "validation" ELSE "nil"

\* ------------------------------------------------------------ GitHub adapter
buildGithubClient ==
    IF vcsInfo.ApiEndpoint # "" /\ ~UrlParses(vcsInfo.ApiEndpoint)
    THEN "construction" ELSE "nil"

\* An operation that returns after at most one call.
Finish(o, canceled, cs, r) ==
    /\ pc' = "done"
    /\ op' = o
    /\ ctxCanceled' = canceled
    /\ calls' = cs
    /\ ret' = r
    /\ local' = NoLocal

GitHubTestConnection ==
    /\ pc = "idle"
    /\ \E canceled \in BOOLEAN, accepted \in BOOLEAN :
         LET o == [adapter |-> "GitHub", name |-> "TestConnection"]
             c == NetCall("Zen", "", TRUE, canceled, accepted)
         IN  IF buildGithubClient # "nil"
             THEN Finish(o, canceled, <<>>, [err |-> buildGithubClient])
             ELSE Finish(o, canceled, <<c>>, [err |-> CallError(c)])
    /\ UNCHANGED <<platformVars, hooks, created>>

\* AddSshKeyToRepository validates without the public key.
GitHubAddSshKeyParams_NoPublicKey(owner, repository, keyName, publicKey) ==
    {owner, repository, keyName}

\* The values AddSshKeyToRepository hands to validateParametersNotBlank.
GitHubAddSshKeyParams(owner, repository, keyName, publicKey) ==
    {owner, repository, keyName, publicKey}

GitHubAddSshKeyToRepository ==
    /\ pc = "idle"
    /\ \E owner \in Strs, repository \in Strs, keyName \in Strs, publicKey \in Strs,
          permission \in Permissions, canceled \in BOOLEAN, accepted \in BOOLEAN :
         LET o == [adapter |-> "GitHub", name |-> "AddSshKeyToRepository",
                   owner |-> owner, repository |-> repository,
                   keyName |-> keyName, publicKey |-> publicKey,
                   permission |-> permission]
             v == validateParametersNotBlank(
                      GitHubAddSshKeyParams(owner, repository, keyName, publicKey))
             key == [Key |-> publicKey, Title |-> keyName,
                     ReadOnly |-> (permission # "ReadWrite")]
             c == NetCall("CreateKey", <<owner, repository, key>>, TRUE, canceled, accepted)
         IN  IF v # "nil" THEN Finish(o, canceled, <<>>, [err |-> v])
             ELSE IF buildGithubClient # "nil"
             THEN Finish(o, canceled, <<>>, [err |-> buildGithubClient])
             ELSE Finish(o, canceled, <<c>>, [err |-> CallError(c)])
    /\ UNCHANGED <<platformVars, hooks, created>>

GitHubListBranches ==
    /\ pc = "idle"
    /\ \E owner \in Strs, repository \in Strs, canceled \in BOOLEAN, accepted \in BOOLEAN :
         LET o == [adapter |-> "GitHub", name |-> "ListBranches",
                   owner |-> owner, repository |-> repository]
             c == NetCall("ListBranches", <<owner, repository>>, TRUE, canceled, accepted)
         IN  IF buildGithubClient # "nil"
             THEN Finish(o, canceled, <<>>, [err |-> buildGithubClient, val |-> <<>>])
             ELSE IF CallError(c) # "nil"
             THEN Finish(o, canceled, <<c>>, [err |-> CallError(c), val |-> <<>>])
             ELSE Finish(o, canceled, <<c>>, [err |-> "nil", val |-> <<"branch-1", "branch-2">>])
    /\ UNCHANGED <<platformVars, hooks, created>>

getGitHubCommitState(commitState) ==
    CASE commitState = "Pass" -> "success"
      [] commitState = "Fail" -> "failure"
      [] commitState = "Error" -> "error"
      [] commitState = "InProgress" -> "pending"
      [] OTHER -> ""

GitHubSetCommitStatus ==
    /\ pc = "idle"
    /\ \E commitStatus \in CommitStatuses, owner \in Strs, repository \in Strs,
          canceled \in BOOLEAN, accepted \in BOOLEAN :
         LET o == [adapter |-> "GitHub", name |-> "SetCommitStatus",
                   commitStatus |-> commitStatus, owner |-> owner, repository |-> repository]
             state == getGitHubCommitState(commitStatus)
             status == [Context |-> "title", TargetURL |-> "url", State |-> state,
                        Description |-> "description"]
             c == NetCall("CreateStatus", [owner |-> owner, repository |-> repository,
                                           ref |-> "ref", State |-> state, status |-> status],
                          TRUE, canceled, accepted)
         IN  IF buildGithubClient # "nil"
             THEN Finish(o, canceled, <<>>, [err |-> buildGithubClient])
             ELSE Finish(o, canceled, <<c>>, [err |-> CallError(c)])
    /\ UNCHANGED <<platformVars, hooks, created>>

\* DownloadRepository up to the archive link: the first of its two calls.
GitHubDownloadRepository ==
    /\ pc = "idle"
    /\ \E owner \in Strs, repository \in Strs, canceled \in BOOLEAN, accepted \in BOOLEAN :
         LET o == [adapter |-> "GitHub", name |-> "DownloadRepository",
                   owner |-> owner, repository |-> repository]
             c == NetCall("GetArchiveLink", <<owner, repository>>, TRUE, canceled, accepted)
         IN  IF buildGithubClient # "nil"
             THEN Finish(o, canceled, <<>>, [err |-> buildGithubClient])
             ELSE IF CallError(c) # "nil"
             THEN Finish(o, canceled, <<c>>, [err |-> CallError(c)])
             ELSE /\ pc' = "gh_archive"
                  /\ op' = o
                  /\ ctxCanceled' = canceled
                  /\ calls' = <<c>>
                  /\ ret' = NoRet
                  /\ local' = NoLocal
    /\ UNCHANGED <<platformVars, hooks, created>>

\* The request for the archive bytes: http.NewRequest, not NewRequestWithContext.
GitHubArchiveRequestPassesCtx == FALSE

\* DownloadRepository from the archive link on: fetch the bytes and extract them.
GitHubDownloadArchive ==
    /\ pc = "gh_archive"
    /\ \E accepted \in BOOLEAN, untarOk \in BOOLEAN :
         LET c == NetCall("GetArchive", "baseUrl", GitHubArchiveRequestPassesCtx,
                          ctxCanceled, accepted)
         IN  /\ calls' = Append(calls, c)
             /\ ret' = [err |-> IF CallError(c) # "nil" THEN CallError(c)
                                ELSE IF untarOk THEN "nil" ELSE "extract"]
    /\ pc' = "done"
    /\ UNCHANGED <<platformVars, hooks, created, ctxCanceled, op, local>>

GitHubCreatePullRequest ==
    /\ pc = "idle"
    /\ \E owner \in Strs, repository \in Strs, canceled \in BOOLEAN, accepted \in BOOLEAN :
         LET o == [adapter |-> "GitHub", name |-> "CreatePullRequest",
                   owner |-> owner, repository |-> repository]
             head == <<owner, ":", "sourceBranch">>
             c == NetCall("CreatePullRequest",
                          [owner |-> owner, repository |-> repository,
                           Head |-> head, Base |-> "targetBranch"],
                          TRUE, canceled, accepted)
         IN  IF buildGithubClient # "nil"
             THEN Finish(o, canceled, <<>>, [err |-> buildGithubClient])
             ELSE Finish(o, canceled, <<c>>, [err |-> CallError(c)])
    /\ UNCHANGED <<platformVars, hooks, created>>

\* CommitInfo{}.
ZeroCommitInfo ==
    [Hash |-> "", AuthorName |-> "", CommitterName |-> "", Url |-> "",
     Timestamp |-> 0, Message |-> "", ParentHashes |-> <<>>]

\* A commit as the platform serves it.
PlatformCommit ==
    [SHA |-> "sha", Author |-> "author", Committer |-> "committer", URL |-> "url",
     Date |-> 1636000000, Message |-> "message", Parents |-> <<"p1", "p2">>]

mapGitHubCommitToCommitInfo(commit) ==
    [Hash |-> commit.SHA, AuthorName |-> commit.Author,
     CommitterName |-> commit.Committer, Url |-> commit.URL,
     Timestamp |-> commit.Date, Message |-> commit.Message,
     ParentHashes |-> [i \in 1..Len(commit.Parents) |-> commit.Parents[i]]]

\* GetLatestCommit treats a branch without commits as a failure.
GitHubLatestOf_EmptyIsError(commits) ==
    IF Len(commits) > 0
    THEN [err |-> "nil", val |-> mapGitHubCommitToCommitInfo(commits[1])]
    ELSE [err |-> "platform", val |-> ZeroCommitInfo]

\* What GetLatestCommit returns once ListCommits has succeeded.
GitHubLatestOf(commits) ==
    IF Len(commits) > 0
    THEN [err |-> "nil", val |-> mapGitHubCommitToCommitInfo(commits[1])]
    ELSE [err |-> "nil", val |-> ZeroCommitInfo]

GitHubGetLatestCommit ==
    /\ pc = "idle"
    /\ \E owner \in Strs, repository \in Strs, branch \in Strs,
          canceled \in BOOLEAN, accepted \in BOOLEAN,
          commits \in {<<>>, <<PlatformCommit>>} :
         LET o == [adapter |-> "GitHub", name |-> "GetLatestCommit",
                   owner |-> owner, repository |-> repository, branch |-> branch,
                   commits |-> commits]
             v == validateParametersNotBlank({owner, repository, branch})
             c == NetCall("ListCommits",
                          [owner |-> owner, repository |-> repository, SHA |-> branch,
                           Page |-> 1, PerPage |-> 1],
                          TRUE, canceled, accepted)
         IN  IF v # "nil" THEN Finish(o, canceled, <<>>, [err |-> v, val |-> ZeroCommitInfo])
             ELSE IF buildGithubClient # "nil"
             THEN Finish(o, canceled, <<>>, [err |-> buildGithubClient, val |-> ZeroCommitInfo])
             ELSE IF CallError(c) # "nil"
             THEN Finish(o, canceled, <<c>>, [err |-> CallError(c), val |-> ZeroCommitInfo])
             ELSE Finish(o, canceled, <<c>>, GitHubLatestOf(commits))
    /\ UNCHANGED <<platformVars, hooks, created>>

GitHubGetRepositoryInfo ==
    /\ pc = "idle"
    /\ \E owner \in Strs, repository \in Strs, canceled \in BOOLEAN, accepted \in BOOLEAN :
         LET o == [adapter |-> "GitHub", name |-> "GetRepositoryInfo",
                   owner |-> owner, repository |-> repository]
             v == validateParametersNotBlank({owner, repository})
             c == NetCall("GetRepository", <<owner, repository>>, TRUE, canceled, accepted)
             none == [HTTP |-> "", SSH |-> ""]
         IN  IF v # "nil" THEN Finish(o, canceled, <<>>, [err |-> v, val |-> none])
             ELSE IF buildGithubClient # "nil"
             THEN Finish(o, canceled, <<>>, [err |-> buildGithubClient, val |-> none])
             ELSE IF CallError(c) # "nil"
             THEN Finish(o, canceled, <<c>>, [err |-> CallError(c), val |-> none])
             ELSE Finish(o, canceled, <<c>>,
                         [err |-> "nil", val |-> [HTTP |-> "clone_url", SSH |-> "ssh_url"]])
    /\ UNCHANGED <<platformVars, hooks, created>>

GitHubGetCommitBySha ==
    /\ pc = "idle"
    /\ \E owner \in Strs, repository \in Strs, sha \in Strs,
          canceled \in BOOLEAN, accepted \in BOOLEAN :
         LET o == [adapter |-> "GitHub", name |-> "GetCommitBySha",
                   owner |-> owner, repository |-> repository, sha |-> sha]
             v == validateParametersNotBlank({owner, repository, sha})
             c == NetCall("GetCommit", <<owner, repository, sha>>, TRUE, canceled, accepted)
         IN  IF v # "nil" THEN Finish(o, canceled, <<>>, [err |-> v, val |-> ZeroCommitInfo])
             ELSE IF buildGithubClient # "nil"
             THEN Finish(o, canceled, <<>>, [err |-> buildGithubClient, val |-> ZeroCommitInfo])
             ELSE IF CallError(c) # "nil"
             THEN Finish(o, canceled, <<c>>, [err |-> CallError(c), val |-> ZeroCommitInfo])
             ELSE Finish(o, canceled, <<c>>,
                         [err |-> "nil", val |-> mapGitHubCommitToCommitInfo(PlatformCommit)])
    /\ UNCHANGED <<platformVars, hooks, created>>

\* ------------------------------------------------------------ GitLab adapter
\* fmt.Sprintf("%s/%s", owner, project)
getProjectId(owner, project) == <<owner, "/", project>>

GitLabTestConnection ==
    /\ pc = "idle"
    /\ \E canceled \in BOOLEAN, accepted \in BOOLEAN :
         LET o == [adapter |-> "GitLab", name |-> "TestConnection"]
             c == NetCall("ListProjects", "", TRUE, canceled, accepted)
         IN  Finish(o, canceled, <<c>>, [err |-> CallError(c)])
    /\ UNCHANGED <<platformVars, hooks, created>>

GitLabListBranches ==
    /\ pc = "idle"
    /\ \E owner \in Strs, repository \in Strs, canceled \in BOOLEAN, accepted \in BOOLEAN :
         LET o == [adapter |-> "GitLab", name |-> "ListBranches",
                   owner |-> owner, repository |-> repository]
             c == NetCall("ListBranches", getProjectId(owner, repository),
                          TRUE, canceled, accepted)
         IN  IF CallError(c) # "nil"
             THEN Finish(o, canceled, <<c>>, [err |-> CallError(c), val |-> <<>>])
             ELSE Finish(o, canceled, <<c>>, [err |-> "nil", val |-> <<"branch-1", "branch-2">>])
    /\ UNCHANGED <<platformVars, hooks, created>>

\* The mapping without its case for Error.
getGitLabCommitState_NoError(commitState) ==
    CASE commitState = "Pass" -> "success"
      [] commitState = "Fail" -> "failed"
      [] commitState = "InProgress" -> "running"
      [] OTHER -> ""

getGitLabCommitState(commitState) ==
    CASE commitState = "Pass" -> "success"
      [] commitState = "Fail" -> "failed"
      [] commitState = "Error" -> "failed"
      [] commitState = "InProgress" -> "running"
      [] OTHER -> ""

GitLabSetCommitStatus ==
    /\ pc = "idle"
    /\ \E commitStatus \in CommitStatuses, owner \in Strs, repository \in Strs,
          canceled \in BOOLEAN, accepted \in BOOLEAN :
         LET o == [adapter |-> "GitLab", name |-> "SetCommitStatus",
                   commitStatus |-> commitStatus, owner |-> owner, repository |-> repository]
             state == getGitLabCommitState(commitStatus)
             options == [State |-> state, Ref |-> "ref", Name |-> "title",
                         Description |-> "description", TargetURL |-> "url"]
             c == NetCall("SetCommitStatus",
                          [project |-> getProjectId(owner, repository), ref |-> "ref",
                           State |-> state, options |-> options],
                          TRUE, canceled, accepted)
         IN  Finish(o, canceled, <<c>>, [err |-> CallError(c)])
    /\ UNCHANGED <<platformVars, hooks, created>>

GitLabDownloadRepository ==
    /\ pc = "idle"
    /\ \E owner \in Strs, repository \in Strs, canceled \in BOOLEAN, accepted \in BOOLEAN,
          untarOk \in BOOLEAN :
         LET o == [adapter |-> "GitLab", name |-> "DownloadRepository",
                   owner |-> owner, repository |-> repository]
             c == NetCall("Archive", getProjectId(owner, repository),
                          TRUE, canceled, accepted)
         IN  IF CallError(c) # "nil"
             THEN Finish(o, canceled, <<c>>, [err |-> CallError(c)])
             ELSE Finish(o, canceled, <<c>>, [err |-> IF untarOk THEN "nil" ELSE "extract"])
    /\ UNCHANGED <<platformVars, hooks, created>>

GitLabCreatePullRequest ==
    /\ pc = "idle"
    /\ \E owner \in Strs, repository \in Strs, canceled \in BOOLEAN, accepted \in BOOLEAN :
         LET o == [adapter |-> "GitLab", name |-> "CreatePullRequest",
                   owner |-> owner, repository |-> repository]
             c == NetCall("CreateMergeRequest",
                          [project |-> getProjectId(owner, repository),
                           SourceBranch |-> "sourceBranch", TargetBranch |-> "targetBranch"],
                          TRUE, canceled, accepted)
         IN  Finish(o, canceled, <<c>>, [err |-> CallError(c)])
    /\ UNCHANGED <<platformVars, hooks, created>>

\* ------------------------------------------------------------ ListRepositories
\* Append the repositories of one page to the result map, in page order.
RECURSIVE AddRepos(_, _)
AddRepos(results, repos) ==
    IF repos = <<>> THEN results
    ELSE AddRepos([results EXCEPT ![Head(repos).owner] = Append(@, Head(repos).name)],
                  Tail(repos))

\* Page p (1..N) of the GitHub listing: two repositories, of two owners.
GitHubPageRepos(p) ==
    <<[owner |-> 1 + (p % 2), name |-> <<"repo", p, 1>>],
      [owner |-> 1, name |-> <<"repo", p, 2>>]>>

\* The SDK's Repositories.List with ListOptions.Page = page against a platform
\* holding n pages: Page is sent only when it is not zero and the platform
\* numbers pages from 1, so 0 and 1 both fetch the first page; LastPage comes from
\* the response's rel="last" link, which the last page does not carry.
GitHubServe(n, page) ==
    LET served == IF page = 0 THEN 1 ELSE page
    IN  [served |-> served,
         repos |-> IF served <= n THEN GitHubPageRepos(served) ELSE <<>>,
         LastPage |-> IF served < n THEN n ELSE 0]

\* The loop's exit test after the page nextPage.
GitHubListDone(nextPage, lastPage) == nextPage + 1 >= lastPage

\* What ListRepositories returns beside the error when a page request fails.
GitHubListError(results) == EmptyResults

GitHubListRepositories ==
    /\ pc = "idle"
    /\ \E n \in PageCounts, canceled \in BOOLEAN :
         LET o == [adapter |-> "GitHub", name |-> "ListRepositories"]
         IN  /\ ghPages' = n
             /\ IF buildGithubClient # "nil"
                THEN Finish(o, canceled, <<>>, [err |-> buildGithubClient, val |-> EmptyResults])
                ELSE /\ pc' = "gh_list"
                     /\ op' = o
                     /\ ctxCanceled' = canceled
                     /\ calls' = <<>>
                     /\ ret' = NoRet
                     /\ local' = [nextPage |-> 0, results |-> EmptyResults]
    /\ UNCHANGED <<vcsInfo, glGroups, hooks, created>>

\* One turn of the loop: request the page, add its repositories, test for the end.
GitHubListPage ==
    /\ pc = "gh_list"
    /\ \E accepted \in BOOLEAN :
         LET c == NetCall("ListRepositories", local.nextPage, TRUE, ctxCanceled, accepted)
             response == GitHubServe(ghPages, local.nextPage)
             results == AddRepos(local.results, response.repos)
         IN  /\ calls' = Append(calls, c @@ [served |-> response.served])
             /\ IF CallError(c) # "nil"
                THEN /\ pc' = "done"
                     /\ ret' = [err |-> CallError(c), val |-> GitHubListError(local.results)]
                     /\ local' = NoLocal
                ELSE IF GitHubListDone(local.nextPage, response.LastPage)
                THEN /\ pc' = "done"
                     /\ ret' = [err |-> "nil", val |-> results]
                     /\ local' = NoLocal
                ELSE /\ pc' = "gh_list"
                     /\ ret' = NoRet
                     /\ local' = [nextPage |-> local.nextPage + 1, results |-> results]
    /\ UNCHANGED <<platformVars, hooks, created, ctxCanceled, op>>

\* Page p (1..N) of group g's projects.
GitLabPageProjects(g, p) == <<<<"project", g, p, 1>>, <<"project", g, p, 2>>>>

\* ListGroupProjects of group g with ListOptions.Page = pageId: the page's
\* projects and the X-Total-Pages count.
GitLabServe(layout, g, pageId) ==
    [served |-> pageId,
     projects |-> IF pageId >= 1 /\ pageId <= layout[g]
                  THEN GitLabPageProjects(g, pageId) ELSE <<>>,
     TotalPages |-> layout[g]]

\* The loop's exit test after the page pageId.
GitLabListDone(pageId, totalPages) == pageId >= totalPages

\* The GitLab listing returns what it had accumulated when a page fails.
GitLabListError_Leaks(results) == results

\* What ListRepositories returns beside the error when a page request fails.
GitLabListError(results) == EmptyResults

GitLabListRepositories ==
    /\ pc = "idle"
    /\ \E layout \in GroupLayouts, canceled \in BOOLEAN, accepted \in BOOLEAN :
         LET o == [adapter |-> "GitLab", name |-> "ListRepositories"]
             c == NetCall("ListGroups", "", TRUE, canceled, accepted)
         IN  /\ glGroups' = layout
             /\ IF CallError(c) # "nil"
                THEN Finish(o, canceled, <<c>>, [err |-> CallError(c), val |-> EmptyResults])
                ELSE IF Len(layout) = 0
                THEN Finish(o, canceled, <<c>>, [err |-> "nil", val |-> EmptyResults])
                ELSE /\ pc' = "gl_list"
                     /\ op' = o
                     /\ ctxCanceled' = canceled
                     /\ calls' = <<c>>
                     /\ ret' = NoRet
                     /\ local' = [group |-> 1, pageId |-> 1, results |-> EmptyResults]
    /\ UNCHANGED <<vcsInfo, ghPages, hooks, created>>

\* One turn of the inner loop, and the step to the next group after a group's end.
GitLabListPage ==
    /\ pc = "gl_list"
    /\ \E accepted \in BOOLEAN :
         LET g == local.group
             c == NetCall("ListGroupProjects", <<g, local.pageId>>, TRUE,
                          ctxCanceled, accepted)
             response == GitLabServe(glGroups, g, local.pageId)
             results == [local.results EXCEPT ![g] = @ \o response.projects]
         IN  /\ calls' = Append(calls, c)
             /\ IF CallError(c) # "nil"
                THEN /\ pc' = "done"
                     /\ ret' = [err |-> CallError(c), val |-> GitLabListError(local.results)]
                     /\ local' = NoLocal
                ELSE IF ~GitLabListDone(local.pageId, response.TotalPages)
                THEN /\ pc' = "gl_list"
                     /\ ret' = NoRet
                     /\ local' = [group |-> g, pageId |-> local.pageId + 1,
                                  results |-> results]
                ELSE IF g < Len(glGroups)
                THEN /\ pc' = "gl_list"
                     /\ ret' = NoRet
                     /\ local' = [group |-> g + 1, pageId |-> 1, results |-> results]
                ELSE /\ pc' = "done"
                     /\ ret' = [err |-> "nil", val |-> results]
                     /\ local' = NoLocal
    /\ UNCHANGED <<platformVars, hooks, created, ctxCanceled, op>>

\* ------------------------------------------------------------ webhooks
\* The platform creates hook id for the adapter's platform: the identifier is free.
CanCreate(adapter, id) ==
    /\ <<adapter, id>> \notin DOMAIN hooks
    /\ Cardinality(DOMAIN hooks) < MaxHooks
HookExists(adapter, id) == <<adapter, id>> \in DOMAIN hooks
WithoutHook(adapter, id) ==
    [k \in DOMAIN hooks \ {<<adapter, id>>} |-> hooks[k]]

\* The identifier formatted without its sign.
GitHubHookIdString_Unsigned(id) == FormatUint(IF id < 0 THEN -id ELSE id)

\* strconv.FormatInt(*responseHook.ID, 10)
GitHubHookIdString(id) == FormatInt(id)
\* strconv.ParseInt(webhookId, 10, 64)
GitHubParseHookId(webhookId) == ParseInt(webhookId)

GitHubCreateWebhook ==
    /\ pc = "idle"
    /\ \E owner \in HookOwners, repository \in HookRepos, payloadUrl \in PayloadUrls,
          canceled \in BOOLEAN, accepted \in BOOLEAN, id \in HookIds :
         LET o == [adapter |-> "GitHub", name |-> "CreateWebhook",
                   owner |-> owner, repository |-> repository, payloadUrl |-> payloadUrl]
             token == CreateToken
             c == NetCall("CreateHook", <<owner, repository, payloadUrl, token>>, TRUE,
                          canceled, accepted /\ CanCreate("GitHub", id))
             none == [id |-> <<>>, token |-> ""]
         IN  IF buildGithubClient # "nil"
             THEN /\ Finish(o, canceled, <<>>, [err |-> buildGithubClient] @@ none)
                  /\ UNCHANGED <<hooks, created>>
             ELSE IF CallError(c) # "nil"
             THEN /\ Finish(o, canceled, <<c>>, [err |-> CallError(c)] @@ none)
                  /\ UNCHANGED <<hooks, created>>
             ELSE /\ Finish(o, canceled, <<c @@ [hookId |-> id]>>,
                            [err |-> "nil", id |-> GitHubHookIdString(id), token |-> token])
                  /\ hooks' = (<<"GitHub", id>> :> payloadUrl) @@ hooks
                  /\ created' = [set |-> TRUE, adapter |-> "GitHub",
                                 id |-> GitHubHookIdString(id), hookId |-> id]
    /\ UNCHANGED platformVars

GitHubUpdateWebhook ==
    /\ pc = "idle"
    /\ \E owner \in HookOwners, repository \in HookRepos, payloadUrl \in PayloadUrls,
          webhookId \in WebhookIds, canceled \in BOOLEAN, accepted \in BOOLEAN :
         LET o == [adapter |-> "GitHub", name |-> "UpdateWebhook",
                   owner |-> owner, repository |-> repository, payloadUrl |-> payloadUrl,
                   webhookId |-> webhookId]
             webhookIdInt64 == GitHubParseHookId(webhookId)
             c == NetCall("EditHook", <<owner, repository, payloadUrl>>, TRUE, canceled,
                          accepted /\ HookExists("GitHub", webhookIdInt64.val))
                  @@ [hookId |-> webhookIdInt64.val]
         IN  IF buildGithubClient # "nil"
             THEN Finish(o, canceled, <<>>, [err |-> buildGithubClient]) /\ UNCHANGED hooks
             ELSE IF ~webhookIdInt64.ok
             THEN Finish(o, canceled, <<>>, [err |-> "parse"]) /\ UNCHANGED hooks
             ELSE /\ Finish(o, canceled, <<c>>, [err |-> CallError(c)])
                  /\ hooks' = IF c.ok
                              THEN [hooks EXCEPT ![<<"GitHub", webhookIdInt64.val>>] = payloadUrl]
                              ELSE hooks
    /\ UNCHANGED <<platformVars, created>>

GitHubDeleteWebhook ==
    /\ pc = "idle"
    /\ \E owner \in HookOwners, repository \in HookRepos, webhookId \in WebhookIds,
          canceled \in BOOLEAN, accepted \in BOOLEAN :
         LET o == [adapter |-> "GitHub", name |-> "DeleteWebhook",
                   owner |-> owner, repository |-> repository, webhookId |-> webhookId]
             webhookIdInt64 == GitHubParseHookId(webhookId)
             c == NetCall("DeleteHook", <<owner, repository>>, TRUE, canceled,
                          accepted /\ HookExists("GitHub", webhookIdInt64.val))
                  @@ [hookId |-> webhookIdInt64.val]
         IN  IF buildGithubClient # "nil"
             THEN Finish(o, canceled, <<>>, [err |-> buildGithubClient]) /\ UNCHANGED hooks
             ELSE IF ~webhookIdInt64.ok
             THEN Finish(o, canceled, <<>>, [err |-> "parse"]) /\ UNCHANGED hooks
             ELSE /\ Finish(o, canceled, <<c>>, [err |-> CallError(c)])
                  /\ hooks' = IF c.ok THEN WithoutHook("GitHub", webhookIdInt64.val)
                              ELSE hooks
    /\ UNCHANGED <<platformVars, created>>

\* strconv.Itoa(response.ID)
GitLabHookIdString(id) == FormatInt(id)
\* The conversion's error is dropped and its zero result used.
GitLabParseHookId_IgnoresError(webhookId) ==
    [ok |-> TRUE, val |-> ParseInt(webhookId).val]

\* strconv.Atoi(webhookId)
GitLabParseHookId(webhookId) == ParseInt(webhookId)

GitLabCreateWebhook ==
    /\ pc = "idle"
    /\ \E owner \in HookOwners, repository \in HookRepos, payloadUrl \in PayloadUrls,
          canceled \in BOOLEAN, accepted \in BOOLEAN, id \in HookIds :
         LET o == [adapter |-> "GitLab", name |-> "CreateWebhook",
                   owner |-> owner, repository |-> repository, payloadUrl |-> payloadUrl]
             token == CreateToken
             c == NetCall("AddProjectHook",
                          <<getProjectId(owner, repository), payloadUrl, token>>, TRUE,
                          canceled, accepted /\ CanCreate("GitLab", id))
         IN  IF CallError(c) # "nil"
             THEN /\ Finish(o, canceled, <<c>>,
                            [err |-> CallError(c), id |-> <<>>, token |-> ""])
                  /\ UNCHANGED <<hooks, created>>
             ELSE /\ Finish(o, canceled, <<c @@ [hookId |-> id]>>,
                            [err |-> "nil", id |-> GitLabHookIdString(id), token |-> token])
                  /\ hooks' = (<<"GitLab", id>> :> payloadUrl) @@ hooks
                  /\ created' = [set |-> TRUE, adapter |-> "GitLab",
                                 id |-> GitLabHookIdString(id), hookId |-> id]
    /\ UNCHANGED platformVars

GitLabUpdateWebhook ==
    /\ pc = "idle"
    /\ \E owner \in HookOwners, repository \in HookRepos, payloadUrl \in PayloadUrls,
          webhookId \in WebhookIds, canceled \in BOOLEAN, accepted \in BOOLEAN :
         LET o == [adapter |-> "GitLab", name |-> "UpdateWebhook",
                   owner |-> owner, repository |-> repository, payloadUrl |-> payloadUrl,
                   webhookId |-> webhookId]
             intWebhook == GitLabParseHookId(webhookId)
             c == NetCall("EditProjectHook",
                          <<getProjectId(owner, repository), payloadUrl>>, TRUE, canceled,
                          accepted /\ HookExists("GitLab", intWebhook.val))
                  @@ [hookId |-> intWebhook.val]
         IN  IF ~intWebhook.ok
             THEN Finish(o, canceled, <<>>, [err |-> "parse"]) /\ UNCHANGED hooks
             ELSE /\ Finish(o, canceled, <<c>>, [err |-> CallError(c)])
                  /\ hooks' = IF c.ok
                              THEN [hooks EXCEPT ![<<"GitLab", intWebhook.val>>] = payloadUrl]
                              ELSE hooks
    /\ UNCHANGED <<platformVars, created>>

GitLabDeleteWebhook ==
    /\ pc = "idle"
    /\ \E owner \in HookOwners, repository \in HookRepos, webhookId \in WebhookIds,
          canceled \in BOOLEAN, accepted \in BOOLEAN :
         LET o == [adapter |-> "GitLab", name |-> "DeleteWebhook",
                   owner |-> owner, repository |-> repository, webhookId |-> webhookId]
             intWebhook == GitLabParseHookId(webhookId)
             c == NetCall("DeleteProjectHook", getProjectId(owner, repository), TRUE,
                          canceled, accepted /\ HookExists("GitLab", intWebhook.val))
                  @@ [hookId |-> intWebhook.val]
         IN  IF ~intWebhook.ok
             THEN Finish(o, canceled, <<>>, [err |-> "parse"]) /\ UNCHANGED hooks
             ELSE /\ Finish(o, canceled, <<c>>, [err |-> CallError(c)])
                  /\ hooks' = IF c.ok THEN WithoutHook("GitLab", intWebhook.val)
                              ELSE hooks
    /\ UNCHANGED <<platformVars, created>>

\* ------------------------------------------------------------ method sets
\* A call of the named method on the GitHub client: the methods the type defines.
GitHubInvoke(method) ==
    CASE method = "TestConnection" -> GitHubTestConnection
      [] method = "AddSshKeyToRepository" -> GitHubAddSshKeyToRepository
      [] method = "ListRepositories" -> GitHubListRepositories
      [] method = "ListBranches" -> GitHubListBranches
      [] method = "CreateWebhook" -> GitHubCreateWebhook
      [] method = "UpdateWebhook" -> GitHubUpdateWebhook
      [] method = "DeleteWebhook" -> GitHubDeleteWebhook
      [] method = "SetCommitStatus" -> GitHubSetCommitStatus
      [] method = "DownloadRepository" -> GitHubDownloadRepository
      [] method = "CreatePullRequest" -> GitHubCreatePullRequest
      [] method = "GetLatestCommit" -> GitHubGetLatestCommit
      [] method = "GetRepositoryInfo" -> GitHubGetRepositoryInfo
      [] method = "GetCommitBySha" -> GitHubGetCommitBySha
      [] OTHER -> FALSE

\* A call of the named method on the GitLab client: the methods the type defines.
GitLabInvoke(method) ==
    CASE method = "TestConnection" -> GitLabTestConnection
      [] method = "ListRepositories" -> GitLabListRepositories
      [] method = "ListBranches" -> GitLabListBranches
      [] method = "CreateWebhook" -> GitLabCreateWebhook
      [] method = "UpdateWebhook" -> GitLabUpdateWebhook
      [] method = "DeleteWebhook" -> GitLabDeleteWebhook
      [] method = "SetCommitStatus" -> GitLabSetCommitStatus
      [] method = "DownloadRepository" -> GitLabDownloadRepository
      [] method = "CreatePullRequest" -> GitLabCreatePullRequest
      [] OTHER -> FALSE

\* The caller cancels the context while the operation is between two calls.
Cancel ==
    /\ pc \notin {"idle", "done"}
    /\ ~ctxCanceled
    /\ ctxCanceled' = TRUE
    /\ UNCHANGED <<platformVars, hooks, created, pc, op, local, calls, ret>>

\* The operation has returned; the client is ready for the next call.
Return ==
    /\ pc = "done"
    /\ pc' = "idle"
    /\ op' = NoOp
    /\ local' = NoLocal
    /\ calls' = <<>>
    /\ ret' = NoRet
    /\ ctxCanceled' = FALSE
    /\ UNCHANGED <<platformVars, hooks, created>>

Next ==
    \/ GitHubTestConnection
    \/ GitHubAddSshKeyToRepository
    \/ GitHubListBranches
    \/ GitHubSetCommitStatus
    \/ GitHubDownloadRepository
    \/ GitHubDownloadArchive
    \/ GitHubCreatePullRequest
    \/ GitHubGetLatestCommit
    \/ GitHubGetRepositoryInfo
    \/ GitHubGetCommitBySha
    \/ GitLabTestConnection
    \/ GitLabListBranches
    \/ GitLabSetCommitStatus
    \/ GitLabDownloadRepository
    \/ GitLabCreatePullRequest
    \/ Cancel
    \/ Return

Spec == Init /\ [][Next]_vars

\* The listing operations alone.
NextList ==
    \/ GitHubListRepositories
    \/ GitHubListPage
    \/ GitLabListRepositories
    \/ GitLabListPage
    \/ Cancel
    \/ Return

SpecList == Init /\ [][NextList]_vars

\* The webhook operations alone.
NextHooks ==
    \/ GitHubCreateWebhook
    \/ GitHubUpdateWebhook
    \/ GitHubDeleteWebhook
    \/ GitLabCreateWebhook
    \/ GitLabUpdateWebhook
    \/ GitLabDeleteWebhook
    \/ Return

SpecHooks == Init /\ [][NextHooks]_vars

\* ------------------------------------------------------------ claims: listing
\* The repositories of pages 1..n of the GitHub listing, in page order.
RECURSIVE GitHubAllPages(_)
GitHubAllPages(n) == IF n = 0 THEN <<>> ELSE GitHubAllPages(n - 1) \o GitHubPageRepos(n)

\* The projects of pages 1..n of group g, in page order.
RECURSIVE GitLabAllPages(_, _)
GitLabAllPages(g, n) ==
    IF n = 0 THEN <<>> ELSE GitLabAllPages(g, n - 1) \o GitLabPageProjects(g, n)

\* The page requests <<g, 1>> .. <<g, n>> of groups 1..g, in order.
RECURSIVE GroupRequests(_, _)
GroupRequests(layout, g) ==
    IF g = 0 THEN <<>>
    ELSE GroupRequests(layout, g - 1) \o [p \in 1..layout[g] |-> <<g, p>>]

IsPageRequest(c) == c.api = "ListGroupProjects"
ListReturned == pc = "done" /\ op.name = "ListRepositories"

\* C1: a ListRepositories call that succeeds against a platform holding N pages has
\* issued exactly N page requests, one for each page 1..N, and returns for every
\* owner the names of all N pages in page order.
C1_AllPagesOnceInOrder ==
    (ListReturned /\ ret.err = "nil") =>
        IF op.adapter = "GitHub"
        THEN /\ Len(calls) = ghPages
             /\ \A p \in 1..ghPages :
                    Cardinality({i \in 1..Len(calls) : calls[i].served = p}) = 1
             /\ ret.val = AddRepos(EmptyResults, GitHubAllPages(ghPages))
        ELSE /\ LET reqs == SelectSeq(calls, IsPageRequest)
                IN  [i \in 1..Len(reqs) |-> reqs[i].arg]
                        = GroupRequests(glGroups, Len(glGroups))
             /\ \A g \in Owners :
                    ret.val[g] = IF g <= Len(glGroups)
                                 THEN GitLabAllPages(g, glGroups[g]) ELSE <<>>

\* C2: in ListRepositories a failed request is the last request issued, and the
\* call then returns an error and a result holding no repository name.
C2_FailureDropsPartialResults ==
    (op.name = "ListRepositories") =>
        /\ \A i \in 1..Len(calls) : CallError(calls[i]) # "nil" => i = Len(calls)
        /\ (\E i \in 1..Len(calls) : CallError(calls[i]) # "nil") =>
               (pc = "done" /\ ret.err # "nil" /\ ~HasNames(ret.val))

\* A listing that failed on a later page, after pages had been accumulated.
C2_Witness ==
    /\ ListReturned
    /\ op.adapter = "GitLab"
    /\ Len(calls) >= 3
    /\ calls[2].ok
    /\ CallError(calls[Len(calls)]) = "platform"
    /\ ret.err = "platform"

\* ------------------------------------------------------------ claims: operations
Returned(name) == pc = "done" /\ op.name = name

\* C3: a network call that would start with the caller's context already canceled
\* is not sent, and the operation then returns a cancellation error.
C3_CanceledContextStopsEveryCall ==
    \A i \in 1..Len(calls) :
        calls[i].canceledAtStart =>
            /\ ~calls[i].sent
            /\ pc = "done" => ret.err = "canceled"

\* The operations that take owner and repository arguments.
OwnerRepoOps ==
    {"ListBranches", "CreateWebhook", "UpdateWebhook", "DeleteWebhook",
     "SetCommitStatus", "DownloadRepository", "CreatePullRequest",
     "AddSshKeyToRepository", "GetLatestCommit", "GetRepositoryInfo", "GetCommitBySha"}

\* C4: an operation taking owner and repository returns a validation error and
\* issues no network call whenever owner or repository is blank.
C4_BlankOwnerOrRepositoryRejected ==
    (pc = "done" /\ op.name \in OwnerRepoOps
        /\ (IsBlank(op.owner) \/ IsBlank(op.repository)))
    => (ret.err = "validation" /\ calls = <<>>)

\* C5: AddSshKeyToRepository with a blank owner, repository, key name or public key
\* returns a validation error without any network call; the only call it ever
\* issues is the key creation, and only with all four non-blank.
C5_AddSshKeyValidatesAllFour ==
    Returned("AddSshKeyToRepository") =>
        LET blank == \/ IsBlank(op.owner) \/ IsBlank(op.repository)
                     \/ IsBlank(op.keyName) \/ IsBlank(op.publicKey)
        IN  /\ blank => (ret.err = "validation" /\ calls = <<>>)
            /\ \A i \in 1..Len(calls) : calls[i].api = "CreateKey" /\ ~blank

\* Only the public key is blank and the call was rejected.
C5_Witness ==
    /\ Returned("AddSshKeyToRepository")
    /\ op.owner = "o" /\ op.repository = "o" /\ op.keyName = "o"
    /\ op.publicKey = " "
    /\ ret.err = "validation"
    /\ calls = <<>>

\* The operations of the client interface.
CapabilitySet ==
    {"TestConnection", "ListRepositories", "ListBranches", "AddSshKeyToRepository",
     "CreateWebhook", "UpdateWebhook", "DeleteWebhook", "SetCommitStatus",
     "DownloadRepository", "CreatePullRequest", "GetLatestCommit",
     "GetRepositoryInfo", "GetCommitBySha"}

\* C7: a client that is ready for a call can be called with every operation of the
\* interface, the GitHub client and the GitLab client alike.
C7_SameCapabilitySet ==
    pc = "idle" =>
        \A method \in CapabilitySet :
            /\ ENABLED GitHubInvoke(method)
            /\ ENABLED GitLabInvoke(method)

\* The documented state strings.
DocumentedState(adapter, status) ==
    IF adapter = "GitHub"
    THEN CASE status = "Pass" -> "success" [] status = "Fail" -> "failure"
           [] status = "Error" -> "error" [] status = "InProgress" -> "pending"
    ELSE CASE status = "Pass" -> "success" [] status = "Fail" -> "failed"
           [] status = "Error" -> "failed" [] status = "InProgress" -> "running"

\* C8: for Pass, Fail, Error and InProgress the state SetCommitStatus sends is the
\* documented string of the adapter, never the empty string.
C8_CommitStateAsDocumented ==
    (Returned("SetCommitStatus") /\ op.commitStatus # "Unmapped") =>
        \A i \in 1..Len(calls) :
            /\ calls[i].api = (IF op.adapter = "GitHub" THEN "CreateStatus"
                               ELSE "SetCommitStatus")
            /\ calls[i].arg.State = DocumentedState(op.adapter, op.commitStatus)
            /\ calls[i].arg.State # ""

\* GitLab was sent "failed" for Error.
C8_Witness ==
    /\ Returned("SetCommitStatus")
    /\ op.adapter = "GitLab"
    /\ op.commitStatus = "Error"
    /\ Len(calls) = 1
    /\ calls[1].sent
    /\ calls[1].arg.State = "failed"

LatestArgsBlank == IsBlank(op.owner) \/ IsBlank(op.repository) \/ IsBlank(op.branch)
LatestCallFailed == calls # <<>> /\ ~calls[Len(calls)].ok
LatestEmptyBranch ==
    /\ ~LatestArgsBlank
    /\ calls # <<>> /\ calls[1].ok
    /\ op.commits = <<>>

ParseHookId(adapter, s) ==
    IF adapter = "GitHub" THEN GitHubParseHookId(s) ELSE GitLabParseHookId(s)
EditApi(adapter) == IF adapter = "GitHub" THEN "EditHook" ELSE "EditProjectHook"
DeleteApi(adapter) == IF adapter = "GitHub" THEN "DeleteHook" ELSE "DeleteProjectHook"
UsesCreatedId ==
    /\ pc = "done"
    /\ op.name \in {"UpdateWebhook", "DeleteWebhook"}
    /\ created.set
    /\ op.adapter = created.adapter
    /\ op.webhookId = created.id

\* C6: the string CreateWebhook returns parses back to the hook identifier the
\* platform assigned; UpdateWebhook and DeleteWebhook given that string issue
\* exactly one call, the edit or the delete of that hook, and succeed when the
\* platform accepts it.
C6_CreatedIdRoundTrips ==
    /\ (Returned("CreateWebhook") /\ ret.err = "nil") =>
           /\ Len(calls) = 1
           /\ ParseHookId(op.adapter, ret.id) = [ok |-> TRUE, val |-> calls[1].hookId]
    /\ UsesCreatedId =>
           /\ Len(calls) = 1
           /\ calls[1].api = (IF op.name = "UpdateWebhook" THEN EditApi(op.adapter)
                              ELSE DeleteApi(op.adapter))
           /\ calls[1].hookId = created.hookId
           /\ calls[1].ok => ret.err = "nil"

\* The hook with the least identifier was created and then deleted by its string.
C6_Witness ==
    /\ UsesCreatedId
    /\ op.name = "DeleteWebhook"
    /\ created.hookId = MinInt
    /\ calls[1].ok
    /\ ret.err = "nil"
    /\ ~HookExists(op.adapter, MinInt)

\* C10: UpdateWebhook and DeleteWebhook given a webhookId that is no integer of the
\* platform's identifier type return an error, issue no call and leave the
\* platform's hooks as they were.
C10_UnparseableIdTouchesNothing ==
    [][(/\ pc = "idle"
        /\ op'.name \in {"UpdateWebhook", "DeleteWebhook"}
        /\ op'.webhookId \in BadIds)
       => (/\ ret'.err \notin {"nil", "none"}
           /\ calls' = <<>>
           /\ hooks' = hooks)]_vars

\* An out-of-range identifier was refused while the platform held a hook.
C10_Witness ==
    /\ Returned("DeleteWebhook")
    /\ op.webhookId = FormatUint(MaxInt + 1)
    /\ ret.err = "parse"
    /\ calls = <<>>
    /\ hooks # <<>>

====
